---- MODULE Spec2Model ----
(***************************************************************************)
(* Crawl engine of YandereSpider (src/crawl.py): the page-count estimator, *)
(* the bounded page fetcher (concurrent_fetch_page / fetch_page), the list *)
(* operations of Posts and Pools, and the downloader                       *)
(* (concurrent_download_file / download_file).                             *)
(*                                                                         *)
(* One behaviour is one call of a list operation, or one call of           *)
(* concurrent_download_file followed by a second call with the same        *)
(* arguments.  Every await of the code is a step boundary: a coroutine     *)
(* runs from one await to the next without interruption.                   *)
(***************************************************************************)
EXTENDS Integers, Sequences, FiniteSets, TLC

\* ------------------------------------------------------------------ bounds
MaxPage == 3        \* largest page number a caller or the pager names
MaxConc == 2        \* largest concurrency a caller passes
PageLimit == 2      \* items of a full page (the limit parameter)
MaxUrls == 2        \* longest URL series handed to the downloader

\* --------------------------------------------------------------- variables
VARIABLES
    op,            \* "list" or "download": the operation the caller invoked
    kind,          \* "posts" (Posts.list), "pools" (list_pools), "pool_posts" (list_posts)
    all_page,      \* the all_page argument
    start_page,    \* the start_page argument
    end_page,      \* the end_page argument
    concurrency,   \* the concurrency argument
    truePages,     \* server: last page that holds items (0: the query matches nothing)
    pagerMax,      \* server: largest page number the rendered pager advertises
    pagerTail,     \* server: how many labels of the pager the document carries
    pc,            \* position of the caller's coroutine
    est,           \* the estimator call: its response, the labels found, how it ended
    gt_page,       \* value the estimator returned (gt_page / max_page)
    params_page,   \* params['page'] of the one params dict of the list operation
    sem,           \* value of the asyncio.Semaphore in use
    tasks,         \* coroutines handed to asyncio.gather, by position
    page,          \* local variable page of the sequential loop of Posts.list
    result,        \* the list result
    bulk_result,   \* what concurrent_fetch_page returned to the list operation
    requests,      \* every GET issued so far, in the order issued
    urls,          \* the urls argument of concurrent_download_file
    dirExists,     \* filesystem: the directory exists
    files,         \* filesystem: content of directory/<name>, by name
    dir0,          \* the directory as it was when call 1, call 2 started
    finished,      \* how each download coroutine ended, per call
    run            \* 1: first call of concurrent_download_file, 2: second call

vars == << op, kind, all_page, start_page, end_page, concurrency, truePages,
           pagerMax, pagerTail, pc, est, gt_page, params_page, sem, tasks, page, result,
           bulk_result, requests, urls, dirExists, files, dir0, finished,
           run >>

inputs == << op, kind, all_page, start_page, end_page, concurrency, truePages,
             pagerMax, pagerTail, urls >>

fsvars == << dirExists, files, dir0, finished, run >>

\* ----------------------------------------------------------------- helpers
RECURSIVE Concat(_)
Concat(ss) == IF ss = << >> THEN << >> ELSE Head(ss) \o Concat(Tail(ss))

Max(a, b) == IF a >= b THEN a ELSE b

\* ------------------------------------------------------------------ server
\* number of items the server holds on page p
PageLen(p) == IF p < truePages THEN PageLimit ELSE IF p = truePages THEN 1 ELSE 0

\* the item records of page p, in the order the API returns them
Items(p) == [i \in 1..PageLen(p) |-> << p, i >>]

\* the parsed JSON body of page p: /post.json and /pool.json answer with a
\* flat array, /pool/show.json with an envelope object holding "posts"
Body(k, p) == IF k = "pool_posts" THEN [id |-> 0, posts |-> Items(p)] ELSE Items(p)

\* the a[@aria-label] texts of the rendered pager of page 1: the page
\* numbers from 2 on, then the "Next" control; nothing when there is one page
Pager(n) == IF n <= 1 THEN << >>
            ELSE [i \in 1..n |-> IF i < n THEN << "num", i + 1 >> ELSE << "next", 0 >>]

\* what a GET of a JSON page can come to
JsonOutcomes == {"ok", "transport_error", "non_json"}

\* the labels of the document served: the document elides labels of a long
\* pager and keeps its tail
ShownPager(n, t) == SubSeq(Pager(n), n - t + 1, n)

\* what the GET of the rendered listing can come to: the listing, a
\* response with an error status (client.get returns it like any other), or
\* an exception
HtmlOutcomes == {"ok", "http_error", "transport_error"}

\* tree.xpath('//div[@class="pagination"]/a[@aria-label]/text()'): an error
\* page has no pager region
ExtractPagination(outcome, n, t) == IF outcome = "ok" THEN ShownPager(n, t) ELSE << >>

\* ------------------------------------------------------- page-count estimator
\* int(label)
IntOf(label) == label[2]

\* the last label taken: pagination[-1]
ListPage_Last(pagination) ==
    IF pagination # << >> THEN IntOf(pagination[Len(pagination)]) ELSE 1

\* list_gt_page / list_pools_page / list_posts_page, the value returned
ListPage(pagination) ==
    IF pagination # << >> THEN IntOf(pagination[Len(pagination) - 1]) ELSE 1

\* pagination[-2] raises IndexError on a list of one label, int() raises
\* ValueError on a label that is not a number
ListPageRaises(pagination) ==
    \/ Len(pagination) = 1
    \/ Len(pagination) >= 2 /\ pagination[Len(pagination) - 1][1] # "num"

\* How the estimator ends for a response.  Only httpx.HTTPStatusError is
\* caught (the function then ends without a return value); client.get never
\* raises it, and every other exception leaves the estimator.
EstimatorResult(outcome, pagination) ==
    IF outcome = "http_status_error" THEN [ret |-> "null", value |-> 0]
    ELSE IF outcome = "transport_error" \/ ListPageRaises(pagination)
         THEN [ret |-> "raise", value |-> 0]
         ELSE [ret |-> "int", value |-> ListPage(pagination)]

\* ------------------------------------------------------------- fetch_page
\* the callback argument each list operation passes
CallbackOf(k) == IF k = "pool_posts" THEN "posts" ELSE "none"

\* callback(content): lambda x: x.get('posts', [])
ApplyCallback(callback, content) ==
    IF callback = "posts" THEN content.posts ELSE content

\* What fetch_page hands to its awaiter for a response.  Only
\* httpx.HTTPStatusError is caught; client.get and response.json never raise
\* it, so a transport error and a JSONDecodeError leave fetch_page as
\* exceptions.
FetchPageResult(outcome, k, p) ==
    IF outcome = "http_status_error" THEN [exc |-> FALSE, content |-> << >>]
    ELSE IF outcome = "ok"
         THEN [exc |-> FALSE, content |-> ApplyCallback(CallbackOf(k), Body(k, p))]
         ELSE [exc |-> TRUE, content |-> << >>]

\* a limiter that never makes a coroutine wait
CanAcquire_Unlimited(s) == TRUE

\* async with semaphore: a slot can be taken
CanAcquire(s) == s > 0

\* async with semaphore: the value after leaving the block, on return and on raise
Release(s) == s + 1

\* asyncio.Semaphore(value) raises ValueError for a negative value
SemaphoreRaises(c) == c < 0

\* a wait that resumes when the first coroutine has ended
GatherDone_FirstCompleted(ts) == ts = << >> \/ \E i \in DOMAIN ts : ts[i].st = "done"

\* await asyncio.gather(*tasks, ...) resumes when every coroutine has ended
GatherDone(ts) == \A i \in DOMAIN ts : ts[i].st = "done"

\* gather without return_exceptions: an exception of a coroutine is raised
GatherRaises_Propagate(anyException) == anyException

\* gather(..., return_exceptions=True) hands exceptions back as results
GatherRaises(anyException) == FALSE

\* gather starts the coroutines in the order given and the semaphore wakes
\* its waiters first in, first out: coroutine i is the next to take a slot
IsNextToAcquire(ts, i) == \A j \in 1..(i - 1) : ts[j].st # "pending"

\* the page parameter of the request client.get builds: params is the dict
\* shared by every coroutine, read when the coroutine runs
PageSent(task, shared) == shared

\* ---------------------------------------------------- concurrent_fetch_page
\* the coroutines created by the loop over range(start, end + 1)
NewFetchTasks(s, e) ==
    [i \in 1..Max(e - s + 1, 0) |->
        [st |-> "pending", created |-> s + i - 1, sent |-> 0,
         exc |-> FALSE, content |-> << >>]]

\* params['page'] after the loop: every iteration updates the same dict
PageAfterLoop(s, e, before) == IF s <= e THEN e ELSE before

\* bool(content) for an entry of task_result: an exception object is truthy
Truthy(r) == r.exc \/ r.content # << >>

\* result.extend(content) raises TypeError when content is an exception object
MergeRaises(task_result) ==
    \E i \in DOMAIN task_result : Truthy(task_result[i]) /\ task_result[i].exc

\* result after the loop over task_result, taken in task order
MergeResult(task_result) ==
    Concat([i \in DOMAIN task_result |->
               IF Truthy(task_result[i]) THEN task_result[i].content ELSE << >>])

\* ------------------------------------------------------------ list operations
\* every list operation continuing past the estimate
HasSequentialPhase_Always(k) == TRUE

\* only Posts.list continues past the estimate
HasSequentialPhase(k) == k = "posts"

\* the estimator called in either mode
CallsEstimator_Always(ap) == TRUE

\* if all_page: the estimator is called
CallsEstimator(ap) == ap

\* if content: ... else: break
Continues(content) == content # << >>

\* page += 2
NextPage_Skip(p) == p + 2

\* page += 1
NextPage(p) == p + 1

Req(type, p, u, phase, task) ==
    [type |-> type, page |-> p, url |-> u, phase |-> phase, task |-> task, run |-> run]

\* ---------------------------------------------------------------- filesystem
\* the media URLs, as their path components
Urls == { << "image", "d1", "a.jpg" >>, << "image", "d2", "a.jpg" >>,
          << "image", "d1", "b%20c.jpg" >> }

\* the file names the directory can hold
Names == {"a.jpg", "b%20c.jpg", "b c.jpg"}

NoFile == << "absent", << >> >>

\* os.listdir(directory)
ListDir(fs) == {n \in Names : fs[n][1] # "absent"}

\* what the GET of a media URL can come to: a 2xx response, a response with
\* an error status (client.get returns it like any other), or an exception
FileOutcomes == {"ok", "http_error", "transport_error"}

\* response.content for a response of url u
ContentOf(outcome, u) == IF outcome = "ok" THEN << "body", u >> ELSE << "errbody", u >>

\* ------------------------------------------------- concurrent_download_file
\* urllib.parse.unquote on a file name: every percent-escape is replaced by
\* the character it encodes
Unquote(n) == IF n = "b%20c.jpg" THEN "b c.jpg" ELSE n

\* the decoded name taken where the name of the URL is wanted
Basename_Decoded(u) == Unquote(u[Len(u)])

\* os.path.basename(url)
Basename(u) == u[Len(u)]

\* parse_url: the basename, decoded; no operation calls it
ParseUrl(u) == Unquote(Basename(u))

\* the filter without its negation
KeepUrl_Inverted(u, listed) == Basename(u) \in listed

\* the filter of line 83: the URL stays when its basename is not listed
KeepUrl(u, listed) == ~(Basename(u) \in listed)

\* every download written under one fixed name
DestName_Fixed(u) == "a.jpg"

\* the name the file is written under: os.path.join(directory, os.path.basename(url))
DestName(u) == Basename(u)

\* the filtered series computed but not assigned back to urls
FilterUrls_Unassigned(us, exists, fs) == us

\* urls after lines 76-83
FilterUrls(us, exists, fs) ==
    IF ~exists THEN us ELSE SelectSeq(us, LAMBDA u : KeepUrl(u, ListDir(fs)))

\* the coroutines of lines 90-94
NewDownloadTasks(us) ==
    [i \in 1..Len(us) |->
        [st |-> "pending", url |-> us[i], filepath |-> DestName(us[i]),
         resp |-> "none", out |-> "none"]]

\* sequences over S of length at most n
SeqsUpTo(S, n) == UNION {[1..k -> S] : k \in 0..n}

\* ------------------------------------------------------------------- Init
InitList ==
    /\ op = "list"
    /\ kind \in {"posts", "pools", "pool_posts"}
    /\ all_page \in BOOLEAN
    /\ start_page \in 1..MaxPage
    /\ end_page \in 1..MaxPage
    /\ all_page => start_page = 1 /\ end_page = 1
    /\ concurrency \in (0 - 1)..MaxConc
    /\ truePages \in 0..MaxPage
    /\ pagerMax \in 1..MaxPage
    /\ pagerTail \in 0..MaxPage
    /\ IF all_page /\ pagerMax >= 2 THEN pagerTail \in 1..pagerMax ELSE pagerTail = 0
    \* posts: the pager undercounts (hidden posts); pools: it is exact;
    \* pool/show: the page is never paginated, the pager is absent
    /\ IF kind = "posts" THEN pagerMax <= Max(truePages, 1)
                         ELSE pagerMax = Max(truePages, 1)
    /\ kind = "pool_posts" => truePages <= 1
    /\ urls = << >>
    /\ dirExists = FALSE
    /\ files = [n \in Names |-> NoFile]

InitDownload ==
    /\ op = "download"
    /\ kind = "posts" /\ all_page = FALSE /\ start_page = 1 /\ end_page = 1
    /\ truePages = 0 /\ pagerMax = 1 /\ pagerTail = 0
    \* a rejected value, a limiter that never opens, one download at a time,
    \* and the widest limiter
    /\ concurrency \in {0 - 1, 0, 1, MaxConc}
    /\ urls \in SeqsUpTo(Urls, MaxUrls)
    /\ dirExists \in BOOLEAN
    \* the directory holds files this downloader wrote earlier, or one file
    \* that something else put there under the decoded name of a URL of the call
    /\ \E present \in (SUBSET {Basename(u) : u \in Urls})
                          \cup {{ParseUrl(urls[k])} : k \in DOMAIN urls} :
          /\ ~dirExists => present = {}
          /\ files = [n \in Names |-> IF n \in present THEN << "old", << >> >> ELSE NoFile]

Init ==
    /\ (InitList \/ InitDownload)
    /\ dir0 = << [exists |-> dirExists, files |-> files] >>
    /\ finished = {}
    /\ pc = "start"
    /\ est = [out |-> "none", ret |-> "none", pagination |-> << >>]
    /\ gt_page = 0
    /\ params_page = 1
    /\ sem = 0
    /\ tasks = << >>
    /\ page = 0
    /\ result = << >>
    /\ bulk_result = << >>
    /\ requests = << >>
    /\ run = 1

\* ----------------------------------------------------------------- actions
\* list_gt_page / list_pools_page / list_posts_page: the GET of the rendered page 1
CallEstimator ==
    /\ pc = "start" /\ op = "list" /\ CallsEstimator(all_page)
    /\ requests' = Append(requests, Req("html", 1, << >>, "estimate", 0))
    /\ pc' = "estimating"
    /\ UNCHANGED << inputs, est, fsvars, gt_page, params_page, sem, tasks, page,
                    result, bulk_result >>

\* the estimator's response: the pager is parsed, or the exception leaves
\* the estimator and the list operation
EstimatorResponse ==
    /\ pc = "estimating"
    /\ \E outcome \in HtmlOutcomes :
        LET pagination == ExtractPagination(outcome, pagerMax, pagerTail)
            r == EstimatorResult(outcome, pagination)
        IN  /\ est' = [out |-> outcome, ret |-> r.ret, pagination |-> pagination]
            /\ IF r.ret = "raise"
               THEN /\ pc' = "raised"
                    /\ UNCHANGED gt_page
               ELSE /\ gt_page' = r.value
                    /\ pc' = "estimated"
    /\ UNCHANGED << inputs, fsvars, params_page, sem, tasks, page, result,
                    bulk_result, requests >>

\* concurrent_fetch_page up to the await of gather: the semaphore, and one
\* coroutine per page, each created after params.update({'page': page})
ScheduleFetch(s, e) ==
    IF SemaphoreRaises(concurrency)
    THEN /\ pc' = "raised"
         /\ UNCHANGED << sem, tasks, params_page >>
    ELSE /\ sem' = concurrency
         /\ tasks' = NewFetchTasks(s, e)
         /\ params_page' = PageAfterLoop(s, e, params_page)
         /\ pc' = "gather"

\* the list operation in explicit-range mode calls concurrent_fetch_page
ListExplicit ==
    /\ pc = "start" /\ op = "list" /\ ~CallsEstimator(all_page)
    /\ ScheduleFetch(start_page, end_page)
    /\ UNCHANGED << inputs, est, fsvars, gt_page, page, result, bulk_result, requests >>

\* the list operation in all-pages mode calls concurrent_fetch_page over 1..estimate
ListAllBulk ==
    /\ pc = "estimated"
    /\ IF est.ret = "null"
       THEN \* end_page is None: range(start_page, end_page + 1) raises TypeError
            /\ pc' = "raised"
            /\ UNCHANGED << sem, tasks, params_page >>
       ELSE ScheduleFetch(1, gt_page)
    /\ UNCHANGED << inputs, est, fsvars, gt_page, page, result, bulk_result, requests >>

\* fetch_page of task i: the slot is taken and client.get sends the request
FetchSend(i) ==
    /\ pc = "gather" /\ op = "list"
    /\ tasks[i].st = "pending"
    /\ IsNextToAcquire(tasks, i)
    /\ CanAcquire(sem)
    /\ sem' = sem - 1
    /\ tasks' = [tasks EXCEPT ![i].st = "inflight",
                              ![i].sent = PageSent(tasks[i], params_page)]
    /\ requests' = Append(requests,
                          Req("json", PageSent(tasks[i], params_page), << >>, "bulk", i))
    /\ UNCHANGED << inputs, est, fsvars, pc, gt_page, params_page, page, result,
                    bulk_result >>

\* fetch_page of task i: the response arrives, the slot is given back
FetchResponse(i) ==
    /\ pc = "gather" /\ op = "list"
    /\ tasks[i].st = "inflight"
    /\ \E outcome \in JsonOutcomes :
        LET r == FetchPageResult(outcome, kind, tasks[i].sent)
        IN  tasks' = [tasks EXCEPT ![i].st = "done", ![i].exc = r.exc,
                                   ![i].content = r.content]
    /\ sem' = Release(sem)
    /\ UNCHANGED << inputs, est, fsvars, pc, gt_page, params_page, page, result,
                    bulk_result, requests >>

\* gather has every result: the merge loop, the return to the list
\* operation, and what the list operation does next
Merge ==
    /\ pc = "gather" /\ op = "list"
    /\ GatherDone(tasks)
    /\ IF GatherRaises(\E i \in DOMAIN tasks : tasks[i].exc) \/ MergeRaises(tasks)
       THEN /\ pc' = "raised"
            /\ UNCHANGED << result, bulk_result, sem, page >>
       ELSE /\ result' = MergeResult(tasks)
            /\ bulk_result' = MergeResult(tasks)
            /\ IF all_page /\ HasSequentialPhase(kind)
               THEN /\ sem' = concurrency
                    /\ page' = gt_page + 1
                    /\ pc' = "seq_loop"
               ELSE /\ pc' = "done"
                    /\ UNCHANGED << sem, page >>
    /\ UNCHANGED << inputs, est, fsvars, gt_page, params_page, tasks, requests >>

\* sequential loop of Posts.list: params.update, then fetch_page sends the request
SeqSend ==
    /\ pc = "seq_loop"
    /\ CanAcquire(sem)
    /\ params_page' = page
    /\ sem' = sem - 1
    /\ requests' = Append(requests, Req("json", page, << >>, "seq", 0))
    /\ pc' = "seq_wait"
    /\ UNCHANGED << inputs, est, fsvars, gt_page, tasks, page, result, bulk_result >>

\* sequential loop of Posts.list: the response, then extend and advance, or break
SeqResponse ==
    /\ pc = "seq_wait"
    /\ sem' = Release(sem)
    /\ \E outcome \in JsonOutcomes :
        LET r == FetchPageResult(outcome, kind, params_page)
        IN  IF r.exc
            THEN /\ pc' = "raised"
                 /\ UNCHANGED << result, page >>
            ELSE IF Continues(r.content)
                 THEN /\ result' = result \o r.content
                      /\ page' = NextPage(page)
                      /\ pc' = "seq_loop"
                 ELSE /\ pc' = "done"
                      /\ UNCHANGED << result, page >>
    /\ UNCHANGED << inputs, est, fsvars, gt_page, params_page, tasks, bulk_result,
                    requests >>

\* posts['file_url'] (pools['id'], pools['name']) on pd.DataFrame(result):
\* a DataFrame built from an empty list has no columns, the lookup raises
\* KeyError
ColumnRaises(rows) == rows = << >>

\* the file_url field of an item record
FileUrl(item) == << "image", item[1], item[2] >>

\* the column of the DataFrame, one value per row, in row order
Column(rows) == [i \in 1..Len(rows) |-> FileUrl(rows[i])]

\* Posts.download, Pools.download after the await of the list operation:
\* the column is taken from the listing and handed on, to
\* concurrent_download_file (posts, pool_posts) or to the loop over the
\* pools (pools).  What concurrent_download_file does with the URLs it is
\* handed is the download operation, which starts from any URL sequence.
ProjectUrls ==
    /\ op = "list" /\ pc = "done"
    /\ IF ColumnRaises(result)
       THEN /\ pc' = "raised"
            /\ UNCHANGED urls
       ELSE /\ pc' = "handed"
            /\ urls' = IF kind = "pools" THEN urls ELSE Column(result)
    /\ UNCHANGED << op, kind, all_page, start_page, end_page, concurrency, truePages,
                    pagerMax, pagerTail, est, fsvars, gt_page, params_page, sem, tasks,
                    page, result, bulk_result, requests >>

\* the record of how download coroutine i of the current call ended
Fin(i, out) == [run |-> run, url |-> tasks[i].url, out |-> out]

\* concurrent_download_file up to the await of gather: the directory is
\* created or listed, the URLs filtered, the coroutines created
DownloadStart ==
    /\ pc = "start" /\ op = "download"
    /\ dirExists' = TRUE
    /\ LET kept == FilterUrls(urls, dirExists, files)
       IN  IF kept = << >>
           THEN /\ pc' = "done"
                /\ UNCHANGED << sem, tasks >>
           ELSE IF SemaphoreRaises(concurrency)
                THEN /\ pc' = "raised"
                     /\ UNCHANGED << sem, tasks >>
                ELSE /\ sem' = concurrency
                     /\ tasks' = NewDownloadTasks(kept)
                     /\ pc' = "gather"
    /\ UNCHANGED << inputs, est, files, dir0, finished, run, gt_page, params_page,
                    page, result, bulk_result, requests >>

\* download_file of task i: the slot is taken and client.get sends the request
DownloadSend(i) ==
    /\ pc = "gather" /\ op = "download"
    /\ tasks[i].st = "pending"
    /\ IsNextToAcquire(tasks, i)
    /\ CanAcquire(sem)
    /\ sem' = sem - 1
    /\ tasks' = [tasks EXCEPT ![i].st = "inflight"]
    /\ requests' = Append(requests, Req("file", 0, tasks[i].url, "download", i))
    /\ UNCHANGED << inputs, est, fsvars, pc, gt_page, params_page, page, result,
                    bulk_result >>

\* download_file of task i: the response arrives; an exception of client.get
\* is not an HTTPStatusError and leaves the coroutine through the semaphore
DownloadResponse(i) ==
    /\ pc = "gather" /\ op = "download"
    /\ tasks[i].st = "inflight"
    /\ \E outcome \in FileOutcomes :
        IF outcome = "transport_error"
        THEN /\ tasks' = [tasks EXCEPT ![i].st = "done", ![i].out = outcome]
             /\ finished' = finished \cup {Fin(i, outcome)}
             /\ sem' = Release(sem)
        ELSE /\ tasks' = [tasks EXCEPT ![i].st = "opening", ![i].resp = outcome]
             /\ UNCHANGED << sem, finished >>
    /\ UNCHANGED << inputs, est, dirExists, files, dir0, run, pc, gt_page, params_page, page, result,
                    bulk_result, requests >>

\* download_file of task i: aiofiles.open(filepath, 'wb') creates or
\* truncates the file, or raises OSError
DownloadOpen(i) ==
    /\ pc = "gather" /\ op = "download"
    /\ tasks[i].st = "opening"
    /\ \/ /\ files' = [files EXCEPT ![tasks[i].filepath] = << "trunc", << >> >>]
          /\ tasks' = [tasks EXCEPT ![i].st = "writing"]
          /\ UNCHANGED << sem, finished >>
       \/ /\ tasks' = [tasks EXCEPT ![i].st = "done", ![i].out = "open_error"]
          /\ finished' = finished \cup {Fin(i, "open_error")}
          /\ sem' = Release(sem)
          /\ UNCHANGED files
    /\ UNCHANGED << inputs, est, dirExists, dir0, run, pc, gt_page, params_page, page,
                    result, bulk_result, requests >>

\* download_file of task i: f.write(response.content), or OSError
DownloadWrite(i) ==
    /\ pc = "gather" /\ op = "download"
    /\ tasks[i].st = "writing"
    /\ \/ /\ files' = [files EXCEPT ![tasks[i].filepath] =
                                        ContentOf(tasks[i].resp, tasks[i].url)]
          /\ tasks' = [tasks EXCEPT ![i].st = "done", ![i].out = tasks[i].resp]
          /\ finished' = finished \cup {Fin(i, tasks[i].resp)}
       \/ /\ tasks' = [tasks EXCEPT ![i].st = "done", ![i].out = "write_error"]
          /\ finished' = finished \cup {Fin(i, "write_error")}
          /\ UNCHANGED files
    /\ sem' = Release(sem)
    /\ UNCHANGED << inputs, est, dirExists, dir0, run, pc, gt_page, params_page, page,
                    result, bulk_result, requests >>

\* gather(*tasks, return_exceptions=True) has every result: the call returns
DownloadReturn ==
    /\ pc = "gather" /\ op = "download"
    /\ GatherDone(tasks)
    /\ pc' = IF GatherRaises(\E i \in DOMAIN tasks :
                                tasks[i].out \in {"transport_error", "open_error", "write_error"})
             THEN "raised" ELSE "done"
    /\ UNCHANGED << inputs, est, fsvars, gt_page, params_page, sem, tasks, page,
                    result, bulk_result, requests >>

\* the caller runs concurrent_download_file again with the same arguments
Rerun ==
    /\ pc = "done" /\ op = "download" /\ run = 1
    /\ run' = 2
    /\ dir0' = Append(dir0, [exists |-> dirExists, files |-> files])
    /\ pc' = "start"
    /\ UNCHANGED << inputs, est, dirExists, files, finished, gt_page, params_page,
                    sem, tasks, page, result, bulk_result, requests >>

Next ==
    \/ DownloadStart
    \/ \E i \in DOMAIN tasks : DownloadSend(i)
    \/ \E i \in DOMAIN tasks : DownloadResponse(i)
    \/ \E i \in DOMAIN tasks : DownloadOpen(i)
    \/ \E i \in DOMAIN tasks : DownloadWrite(i)
    \/ DownloadReturn
    \/ Rerun
    \/ CallEstimator
    \/ EstimatorResponse
    \/ ListExplicit
    \/ ListAllBulk
    \/ \E i \in DOMAIN tasks : FetchSend(i)
    \/ \E i \in DOMAIN tasks : FetchResponse(i)
    \/ Merge
    \/ SeqSend
    \/ SeqResponse
    \/ ProjectUrls

Spec == Init /\ [][Next]_vars

\* The event loop of asyncio.run resumes every coroutine that is ready, and
\* every request that was issued is answered (with a response or with an
\* error).  Calling the downloader a second time, or calling the list
\* operation from a download operation, is the caller's choice and is not
\* forced.
Fairness ==
    /\ WF_vars(DownloadStart)
    /\ WF_vars(\E i \in DOMAIN tasks : DownloadSend(i))
    /\ WF_vars(\E i \in DOMAIN tasks : DownloadResponse(i))
    /\ WF_vars(\E i \in DOMAIN tasks : DownloadOpen(i))
    /\ WF_vars(\E i \in DOMAIN tasks : DownloadWrite(i))
    /\ WF_vars(DownloadReturn)
    /\ WF_vars(CallEstimator)
    /\ WF_vars(EstimatorResponse)
    /\ WF_vars(ListExplicit)
    /\ WF_vars(ListAllBulk)
    /\ WF_vars(\E i \in DOMAIN tasks : FetchSend(i))
    /\ WF_vars(\E i \in DOMAIN tasks : FetchResponse(i))
    /\ WF_vars(Merge)
    /\ WF_vars(SeqSend)
    /\ WF_vars(SeqResponse)

FairSpec == Spec /\ Fairness

\* ------------------------------------------------------------------ claims
\* the range concurrent_fetch_page was called with
FetchStart == IF all_page THEN 1 ELSE start_page
FetchEnd == IF all_page THEN gt_page ELSE end_page

\* the content the server serves for page p, after the extractor
Served(p) == IF kind = "pool_posts" THEN Body(kind, p).posts ELSE Body(kind, p)

\* Served(s) ++ ... ++ Served(e)
ServedRange(s, e) == Concat([i \in 1..Max(e - s + 1, 0) |-> Served(s + i - 1)])

\* the requests of one phase, in the order issued
PhaseRequests(phase) == SelectSeq(requests, LAMBDA r : r.phase = phase)

\* every coroutine of the concurrent_fetch_page call has completed
FetchCompleted ==
    /\ op = "list" /\ pc \notin {"start", "estimating", "estimated"}
    /\ \A i \in DOMAIN tasks : tasks[i].st = "done"
    /\ gt_page > 0 \/ ~all_page

\* the merge loop is behind: concurrent_fetch_page returned or raised
FetchEnded == FetchCompleted /\ pc # "gather"

\* C1: with 1 <= start_page <= end_page and every request successful,
\* concurrent_fetch_page issues end_page - start_page + 1 requests and each
\* page of the range is the page parameter of exactly one request as sent.
C1_EachPageRequestedOnce ==
    (FetchCompleted /\ FetchStart <= FetchEnd
        /\ \A i \in DOMAIN tasks : ~tasks[i].exc)
    => LET sent == PhaseRequests("bulk")
       IN  /\ Len(sent) = FetchEnd - FetchStart + 1
           /\ \A p \in FetchStart..FetchEnd :
                 Cardinality({j \in DOMAIN sent : sent[j].page = p}) = 1

\* C2: whatever the completion order, concurrent_fetch_page returns
\* items(s) ++ items(s+1) ++ ... ++ items(e), ordered by page index.
C2_ResultInPageOrder ==
    (FetchEnded /\ FetchStart <= FetchEnd /\ \A i \in DOMAIN tasks : ~tasks[i].exc)
    => bulk_result = ServedRange(FetchStart, FetchEnd)

\* C3: Posts.list with all_page=True, every request successful and the last
\* non-empty page T >= estimate, returns the items of pages 1..T, each once,
\* in page order.
C3_AllPagesPostsComplete ==
    (op = "list" /\ kind = "posts" /\ all_page /\ pc = "done"
        /\ est.out = "ok" /\ truePages >= gt_page)
    => result = ServedRange(1, truePages)

\* C4: a page whose request fails contributes nothing and does not abort
\* concurrent_fetch_page: the call returns, with the items of the pages
\* that succeeded, in page order.
C4_FailedPageContributesNothing ==
    (FetchEnded /\ \E i \in DOMAIN tasks : tasks[i].exc)
    => /\ pc # "raised"
       /\ bulk_result =
            Concat([i \in DOMAIN tasks |->
                      IF tasks[i].exc THEN << >> ELSE Served(FetchStart + i - 1)])

\* C5: the coroutines with an active network call never outnumber
\* concurrency; a GET is in flight only for a coroutine that holds a slot,
\* and every slot is back once its coroutine has ended, however it ended.
C5_ConcurrencyCeiling ==
    LET active == {i \in DOMAIN tasks : tasks[i].st = "inflight"}
        holders == {i \in DOMAIN tasks : tasks[i].st \in {"inflight", "opening", "writing"}}
        seqActive == IF pc = "seq_wait" THEN 1 ELSE 0
    IN  (pc \in {"gather", "seq_loop", "seq_wait"} \/ (pc \in {"done", "raised"} /\ tasks # << >>))
        => /\ Cardinality(active) + seqActive <= concurrency
           /\ sem >= 0
           /\ sem + Cardinality(holders) + seqActive = concurrency

\* a state where the limiter is full and a coroutine waits for a slot
C5_Witness ==
    /\ pc = "gather"
    /\ Cardinality({i \in DOMAIN tasks : tasks[i].st = "inflight"}) = concurrency
    /\ \E i \in DOMAIN tasks : tasks[i].st = "pending"
    /\ \E i \in DOMAIN tasks : tasks[i].st = "done"

\* C6: the sequential phase of Posts.list requests estimate+1, estimate+2,
\* ... in increasing order; with k the first of them without items, the
\* items of estimate+1..k-1 are appended and no page beyond k is requested.
C6_SequentialPhaseStopsAtFirstEmpty ==
    (op = "list" /\ kind = "posts" /\ all_page)
    => LET seq == PhaseRequests("seq")
           k == CHOOSE n \in (gt_page + 1)..(MaxPage + 1) :
                    /\ Served(n) = << >>
                    /\ \A j \in (gt_page + 1)..(n - 1) : Served(j) # << >>
       IN  /\ \A j \in DOMAIN seq : seq[j].page = gt_page + j
           /\ \A j \in DOMAIN requests :
                 requests[j].type = "json" => requests[j].page <= k
           /\ pc = "done" =>
                 /\ Len(seq) = k - gt_page
                 /\ result = bulk_result \o ServedRange(gt_page + 1, k - 1)

\* Posts.list returned after two non-empty pages past the estimate and one empty page
C6_Witness ==
    /\ op = "list" /\ kind = "posts" /\ all_page /\ pc = "done"
    /\ Len(PhaseRequests("seq")) = 3
    /\ Len(result) > Len(bulk_result)

\* C7: list_pools and list_posts with all_page=True and every request
\* successful return items(1) ++ items(2) ++ ... ++ items(estimate).
C7_AllPagesPoolsExact ==
    (op = "list" /\ kind \in {"pools", "pool_posts"} /\ all_page /\ pc = "done"
        /\ est.out = "ok")
    => result = ServedRange(1, gt_page)

\* C8: list_pools and list_posts with all_page=True run the bulk phase
\* only: no JSON request names a page beyond the estimate, and the call
\* returns when the bulk phase has completed.
C8_PoolsBulkPhaseOnly ==
    (op = "list" /\ kind \in {"pools", "pool_posts"} /\ all_page)
    => /\ pc \notin {"seq_loop", "seq_wait"}
       /\ \A j \in DOMAIN requests :
             requests[j].type = "json" =>
                requests[j].phase = "bulk" /\ requests[j].page <= gt_page
       /\ pc = "done" =>
             /\ result = bulk_result
             /\ Len(PhaseRequests("bulk")) = gt_page

\* list_pools returned after a bulk phase of several pages
C8_Witness ==
    /\ op = "list" /\ kind = "pools" /\ all_page /\ pc = "done"
    /\ gt_page >= 2
    /\ Len(requests) = gt_page + 1

\* C9: when the directory exists at the start of the call, a URL is
\* fetched if and only if its final path component is not the name of a
\* file that was in the directory then.
C9_FetchIffNotPresent ==
    (op = "download" /\ dir0[run].exists)
    => LET wanted == SelectSeq(urls,
                        LAMBDA u : dir0[run].files[u[Len(u)]][1] = "absent")
           fetched == SelectSeq(requests, LAMBDA r : r.run = run)
       IN  /\ \A j \in DOMAIN fetched :
                 /\ fetched[j].task \in DOMAIN wanted
                 /\ fetched[j].url = wanted[fetched[j].task]
                 /\ \A h \in DOMAIN fetched : fetched[h].task = fetched[j].task => h = j
           /\ pc = "done" =>
                 {fetched[j].task : j \in DOMAIN fetched} = DOMAIN wanted

\* a.jpg is in the directory, the URLs are .../a.jpg and .../b%20c.jpg, and the
\* call has returned after one fetch, of .../b%20c.jpg
C9_Witness ==
    /\ op = "download" /\ run = 1 /\ pc = "done"
    /\ dir0[1].exists /\ dir0[1].files["a.jpg"][1] # "absent"
    /\ dir0[1].files["b%20c.jpg"][1] = "absent"
    /\ urls = << << "image", "d1", "a.jpg" >>, << "image", "d1", "b%20c.jpg" >> >>
    /\ Len(requests) = 1
    /\ requests[1].url = << "image", "d1", "b%20c.jpg" >>

\* C10: the second of two calls of concurrent_download_file with the same
\* directory and URLs performs no network call, whatever the first call's
\* downloads came to.
C10_SecondRunNoNetwork ==
    \A j \in DOMAIN requests : requests[j].run # 2

\* C10, amended: the second call fetches a URL exactly when no file of its
\* derived name was in the directory before the first call and no download
\* of the first call got as far as creating that file.
C10_SecondRunFetchesOnlyMissing ==
    (op = "download" /\ run = 2)
    => LET name(u) == u[Len(u)]
           created(n) == \E f \in finished :
                            /\ f.run = 1 /\ name(f.url) = n
                            /\ f.out \notin {"transport_error", "open_error"}
           missing(u) == dir0[1].files[name(u)][1] = "absent" /\ ~created(name(u))
           again == SelectSeq(requests, LAMBDA r : r.run = 2)
       IN  /\ \A j \in DOMAIN again : missing(again[j].url)
           /\ pc = "done" =>
                 \A i \in DOMAIN urls :
                    missing(urls[i]) => \E j \in DOMAIN again : again[j].url = urls[i]

\* the second call has returned without a request, after a first call that
\* downloaded every URL
C10_Witness ==
    /\ op = "download" /\ run = 2 /\ pc = "done"
    /\ Len(requests) = Len(urls) /\ Len(urls) = MaxUrls
    /\ \A j \in DOMAIN requests : requests[j].run = 1
    /\ \A f \in finished : f.out = "ok"

\* C11: a failed download stays with its file: concurrent_download_file
\* does not raise for it, no sibling is cancelled, and every URL whose
\* request and write succeed ends with its response body in
\* directory/<derived filename>.
C11_EverySuccessfulDownloadWritten ==
    (op = "download" /\ concurrency >= 1)
    => /\ pc # "raised"
       /\ (pc = "done" /\ tasks # << >>) =>
             \A i \in DOMAIN tasks :
                /\ tasks[i].out # "none"
                /\ tasks[i].out = "ok" =>
                      files[tasks[i].url[Len(tasks[i].url)]] = << "body", tasks[i].url >>

\* C11, amended: as C11, for every URL whose derived filename no other
\* download of the call targets.
C11_FailureContained ==
    (op = "download" /\ concurrency >= 1)
    => /\ pc # "raised"
       /\ (pc = "done" /\ tasks # << >>) =>
             \A i \in DOMAIN tasks :
                /\ tasks[i].out # "none"
                /\ (/\ tasks[i].out = "ok"
                    /\ \A j \in DOMAIN tasks :
                          j # i => tasks[j].url[Len(tasks[j].url)] # tasks[i].url[Len(tasks[i].url)])
                   => files[tasks[i].url[Len(tasks[i].url)]] = << "body", tasks[i].url >>

\* the call has returned after one download raised and its sibling wrote its file
C11_Witness ==
    /\ op = "download" /\ run = 1 /\ pc = "done" /\ Len(tasks) = 2
    /\ tasks[1].out = "transport_error"
    /\ tasks[2].out = "ok"
    /\ tasks[2].url = << "image", "d1", "b%20c.jpg" >>
    /\ files["b%20c.jpg"] = << "body", << "image", "d1", "b%20c.jpg" >> >>
    /\ files["a.jpg"] = NoFile

\* C12: in all-pages mode, when the estimator's request fails the list
\* operation fails: it returns no listing, issues no JSON page request and
\* does not go on with a page count put in its place.
C12_EstimatorFailureSurfaced ==
    (op = "list" /\ all_page /\ concurrency >= 1
        /\ est.out \in {"http_error", "transport_error"})
    => /\ pc = "raised"
       /\ result = << >>
       /\ \A j \in DOMAIN requests : requests[j].type # "json"

\* C13: an estimator either returns an integer >= 1 or signals a failure;
\* on an HTTP-level error it signals the failure, and it never ends
\* normally without a value.
C13_EstimatorOutcomes ==
    est.out # "none"
    => /\ est.ret \in {"int", "raise"}
       /\ est.ret = "int" => gt_page >= 1
       /\ est.out = "http_error" => est.ret = "raise"

\* C14: a list operation in explicit-range mode with start_page > end_page
\* ends in an error, not in an empty result, and issues no request.
C14_EmptyRangeRejected ==
    (op = "list" /\ ~all_page /\ concurrency >= 1 /\ start_page > end_page)
    => /\ pc # "done"
       /\ requests = << >>

\* C15: a call with concurrency <= 0 is rejected before any I/O: it ends in
\* an error with no request issued and the filesystem unchanged, and it
\* does not wait for a slot that never comes.
C15_BadConcurrencyRejected ==
    concurrency <= 0
    => /\ pc \in {"start", "raised"}
       /\ requests = << >>
       /\ dirExists = dir0[1].exists

\* C16: in explicit-range mode a list operation does not call the
\* estimator: its requests are the JSON page requests of one
\* concurrent_fetch_page call over [start_page, end_page].
C16_ExplicitRangeNoEstimator ==
    (op = "list" /\ ~all_page)
    => /\ est.out = "none"
       /\ pc \notin {"estimating", "estimated", "seq_loop", "seq_wait"}
       /\ \A j \in DOMAIN requests :
             /\ requests[j].type = "json" /\ requests[j].phase = "bulk"
             /\ requests[j].task \in 1..(end_page - start_page + 1)
             /\ \A h \in DOMAIN requests : requests[h].task = requests[j].task => h = j
       /\ pc = "done" => Len(requests) = Max(end_page - start_page + 1, 0)

\* an explicit range of several pages has been listed
C16_Witness ==
    /\ op = "list" /\ ~all_page /\ pc = "done"
    /\ start_page < end_page
    /\ Len(requests) = end_page - start_page + 1
    /\ result # << >>

\* C17: from the labels extracted from the rendered page 1 the estimator
\* returns 1 when there is none and otherwise the number of the
\* second-to-last label, for every non-empty sequence of labels, a single
\* label included.
C17_SecondToLastLabel ==
    est.out \in {"ok", "http_error"}
    => LET labels == est.pagination
       IN  /\ est.ret = "int"
           /\ labels = << >> => gt_page = 1
           /\ Len(labels) >= 2 => gt_page = labels[Len(labels) - 1][2]

\* C17, amended: the estimator returns 1 when there is no label and the
\* number of the second-to-last label when there are two labels or more;
\* with a single label it raises instead of returning.
C17_SecondToLastOfTwoOrMore ==
    est.out \in {"ok", "http_error"}
    => LET labels == est.pagination
       IN  /\ Len(labels) = 1 <=> est.ret = "raise"
           /\ Len(labels) # 1 => est.ret = "int"
           /\ labels = << >> => gt_page = 1
           /\ Len(labels) >= 2 => gt_page = labels[Len(labels) - 1][2]

\* the estimator has returned the second-to-last of three labels
C17_Witness ==
    /\ est.out = "ok" /\ est.ret = "int"
    /\ est.pagination = << << "num", 2 >>, << "num", 3 >>, << "next", 0 >> >>
    /\ gt_page = 3

\* C18: the sequential phase of Posts.list is not parallelized: it starts
\* when every bulk request has completed, has at most one request in
\* flight, and requests page N+1 only after the response for page N has
\* arrived with items.
C18_SequentialPhaseNotParallel ==
    (op = "list" /\ kind = "posts" /\ all_page)
    => LET seq == PhaseRequests("seq")
       IN  /\ (seq # << >> \/ pc \in {"seq_loop", "seq_wait"}) =>
                 \A i \in DOMAIN tasks : tasks[i].st = "done"
           /\ pc = "seq_loop" => Len(seq) = page - gt_page - 1
           /\ pc = "seq_wait" => Len(seq) = page - gt_page /\ seq[Len(seq)].page = page
           /\ pc \in {"seq_loop", "seq_wait"} =>
                 /\ \A n \in (gt_page + 1)..(page - 1) : Served(n) # << >>
                 /\ result = bulk_result \o ServedRange(gt_page + 1, page - 1)

\* the second sequential request is in flight, after a bulk phase of two pages
C18_Witness ==
    /\ op = "list" /\ kind = "posts" /\ all_page /\ pc = "seq_wait"
    /\ Len(tasks) = 2
    /\ Len(PhaseRequests("seq")) = 2
    /\ page = gt_page + 2

\* C19: the page-fetch tasks of one concurrent_fetch_page call share no
\* mutable state besides the limiter and the result: each task requests the
\* page it was created for, the caller's base parameters are unchanged while
\* the call runs, and results are merged only after every task has finished.
C19_TasksShareNoParameters ==
    op = "list"
    => /\ \A j \in DOMAIN requests :
             requests[j].phase = "bulk" =>
                requests[j].page = tasks[requests[j].task].created
       /\ pc = "gather" => params_page = 1
       /\ pc \in {"seq_loop", "seq_wait", "done"} =>
             \A i \in DOMAIN tasks : tasks[i].st = "done"

\* C20: within one concurrent_download_file call the existing-file scan
\* happens once, before any download task is scheduled, and no two download
\* tasks of the call target the same destination filename, whatever the URL
\* sequence (repeated URLs and equal final path components included).
C20_NoTwoTasksShareDestination ==
    (op = "download" /\ pc = "gather")
    => LET absent(u) == ~dir0[run].exists \/ dir0[run].files[u[Len(u)]][1] = "absent"
           wanted == SelectSeq(urls, absent)
       IN  /\ Len(tasks) = Len(wanted)
           /\ \A i \in DOMAIN tasks : tasks[i].url = wanted[i]
           /\ \A i, j \in DOMAIN tasks :
                 tasks[i].filepath = tasks[j].filepath => i = j

\* C20 as amended: the scan happens once, before any download task is
\* scheduled, and every URL whose name the scan did not list gets a task of
\* its own; two tasks target the same filename exactly when their URLs have
\* the same final path component.
C20_SharedDestinationIffSameBasename ==
    (op = "download" /\ pc = "gather")
    => LET absent(u) == ~dir0[run].exists \/ dir0[run].files[u[Len(u)]][1] = "absent"
           wanted == SelectSeq(urls, absent)
       IN  /\ Len(tasks) = Len(wanted)
           /\ \A i \in DOMAIN tasks : tasks[i].url = wanted[i]
           /\ \A i, j \in DOMAIN tasks :
                 tasks[i].filepath = tasks[j].filepath
                    <=> tasks[i].url[Len(tasks[i].url)] = tasks[j].url[Len(tasks[j].url)]

\* two tasks for distinct URLs ending in a.jpg target a.jpg; the first has
\* written its file while the second is still pending
C20_Witness ==
    /\ op = "download" /\ pc = "gather" /\ Len(tasks) = 2
    /\ tasks[1].url = << "image", "d1", "a.jpg" >>
    /\ tasks[2].url = << "image", "d2", "a.jpg" >>
    /\ tasks[1].filepath = "a.jpg" /\ tasks[2].filepath = "a.jpg"
    /\ files["a.jpg"] = << "body", << "image", "d1", "a.jpg" >> >>
    /\ tasks[2].st = "pending"

\* C21: in all-pages mode for posts a page request that fails during the
\* sequential phase discards nothing: the list operation still completes
\* and returns the bulk-phase items followed by the items of the
\* sequential pages fetched before the failure.
C21_SequentialFailureKeepsWork ==
    (op = "list" /\ kind = "posts" /\ all_page /\ PhaseRequests("seq") # << >>)
    => /\ pc # "raised"
       /\ pc = "done" => result = bulk_result \o ServedRange(gt_page + 1, page - 1)

\* C22: after concurrent_download_file returns, a file with a URL's derived
\* filename is in the directory only if it was there before the call or
\* that URL's download succeeded with a 2xx response; a request answered
\* with an HTTP error status writes no file.  Stated for the calls in which
\* no open and no write fails on the local disk, the case the claim names.
C22_FileOnlyFromSuccessfulDownload ==
    (/\ op = "download" /\ pc = "done" /\ concurrency >= 1
     /\ \A f \in finished : f.out \notin {"open_error", "write_error"})
    => \A n \in Names :
          files[n][1] # "absent" =>
             \/ dir0[run].files[n][1] # "absent"
             \/ /\ files[n][1] = "body"
                /\ \E f \in finished :
                      f.run = run /\ f.url = files[n][2] /\ f.out = "ok"

\* C23: for any concurrency >= 1, any page range or URL set and any mix of
\* succeeding and failing requests, when every issued request completes,
\* concurrent_fetch_page and concurrent_download_file eventually return:
\* the gather of the call is followed by the call's return, not by an
\* exception and not by a task waiting forever.
C23_ConcurrentCallsReturn ==
    (pc = "gather" /\ concurrency >= 1)
        ~> (pc \in {"seq_loop", "seq_wait", "done"})

\* C24: in all-pages mode for posts, when every request completes and some
\* page beyond the estimate is empty, the list operation eventually returns,
\* and it returns right after the response of the first empty page beyond
\* the estimate.
C24_SequentialTailReturns ==
    (op = "list" /\ kind = "posts" /\ all_page /\ est.out = "ok" /\ pc = "seq_loop")
        ~> (/\ pc = "done"
            /\ Served(page) = << >>
            /\ \A n \in (gt_page + 1)..(page - 1) : Served(n) # << >>)

\* C25: when the listing of a download operation (Posts.download,
\* Pools.download) holds no item record, the operation completes normally:
\* the URL projection is the empty URL set, no file download request is
\* issued and no error is raised.
C25_EmptyListingDownloadsNothing ==
    [][(/\ op = "list" /\ pc = "done" /\ result = << >> /\ pc' # pc
        /\ concurrency >= 1 /\ start_page <= end_page)
         => (/\ pc' # "raised"
             /\ urls' = << >>
             /\ requests' = requests)]_vars

\* C26: every download task writes to the directory joined with the final
\* path component of its URL exactly as the URL spells it, percent-escapes
\* not decoded, and the skip-filter compares the directory's names with
\* that same undecoded name: a file is recognized under the name it was
\* written under.
C26_UndecodedNameWrittenAndRecognized ==
    op = "download"
    => /\ \A i \in DOMAIN tasks :
             /\ tasks[i].filepath = tasks[i].url[Len(tasks[i].url)]
             /\ Unquote(tasks[i].url[Len(tasks[i].url)]) # tasks[i].url[Len(tasks[i].url)]
                   => tasks[i].filepath # Unquote(tasks[i].url[Len(tasks[i].url)])
       /\ pc = "gather" =>
             \A u \in Urls :
                (\E i \in DOMAIN tasks : tasks[i].url = u)
                   <=> /\ \E k \in DOMAIN urls : urls[k] = u
                       /\ ~dir0[run].exists \/ dir0[run].files[u[Len(u)]][1] = "absent"
       /\ (run = 2 /\ pc = "gather") =>
             \A f \in finished :
                (f.run = 1 /\ f.out \in {"ok", "http_error"})
                   => /\ files[f.url[Len(f.url)]][1] # "absent"
                      /\ \A i \in DOMAIN tasks : tasks[i].url # f.url

\* the second call runs after the first wrote .../b%20c.jpg under its
\* undecoded name and failed on .../a.jpg: only .../a.jpg is fetched again
C26_Witness ==
    /\ op = "download" /\ run = 2 /\ pc = "gather"
    /\ urls = << << "image", "d1", "a.jpg" >>, << "image", "d1", "b%20c.jpg" >> >>
    /\ files["b%20c.jpg"] = << "body", << "image", "d1", "b%20c.jpg" >> >>
    /\ files["b c.jpg"] = NoFile
    /\ Len(tasks) = 1
    /\ tasks[1].url = << "image", "d1", "a.jpg" >>
    /\ tasks[1].filepath = "a.jpg"

====
